---- MODULE Spec2Model ----
(***************************************************************************)
(* Model of the transcript post-processor of transcribe_from_link.py:      *)
(* timestamp_to_seconds, seconds_to_timestamp and process_transcript.      *)
(*                                                                         *)
(* A Python str is a sequence of one-character strings.  A value that may  *)
(* be None is wrapped: None is <<>>, a value v is <<v>>; so the empty      *)
(* string held by a variable, << <<>> >>, differs from None.               *)
(***************************************************************************)
EXTENDS Integers, Sequences, FiniteSets, TLC

VARIABLES
    lines,                          \* input_text.strip().splitlines()
    i,                              \* position of the for loop (1-based)
    pc,                             \* "loop" | "done"
    output_lines,
    current_segment_start_ts_str,
    current_segment_start_seconds,
    current_speaker,
    current_text_parts,
    result,                         \* the returned text
    codec                           \* a run of the timestamp codec on its own

vars == <<lines, i, pc, output_lines, current_segment_start_ts_str,
          current_segment_start_seconds, current_speaker, current_text_parts,
          result, codec>>

---------------------------------------------------------------------------
(* Python values *)

None == <<>>

Some(v) == <<v>>

IsNone(o) == o = <<>>

Val(o) == o[1]

---------------------------------------------------------------------------
(* str helpers *)

DigitChars == <<"0", "1", "2", "3", "4", "5", "6", "7", "8", "9">>

IsDigit(c) == \E d \in 1..10 : DigitChars[d] = c

DigitVal(c) == (CHOOSE d \in 1..10 : DigitChars[d] = c) - 1

IsSpace(c) == c = " "

AllDigits(s) == \A k \in 1..Len(s) : IsDigit(s[k])

\* index of the first occurrence of c in s, 0 when there is none
IndexOf(s, c) ==
    IF \E k \in 1..Len(s) : s[k] = c
    THEN CHOOSE k \in 1..Len(s) : s[k] = c /\ \A j \in 1..(k - 1) : s[j] # c
    ELSE 0

\* str.lstrip()
LStrip(s) ==
    IF \A k \in 1..Len(s) : IsSpace(s[k])
    THEN <<>>
    ELSE LET f == CHOOSE k \in 1..Len(s) :
                      ~IsSpace(s[k]) /\ \A j \in 1..(k - 1) : IsSpace(s[j])
         IN  SubSeq(s, f, Len(s))

\* str.rstrip()
RStrip(s) ==
    IF \A k \in 1..Len(s) : IsSpace(s[k])
    THEN <<>>
    ELSE LET l == CHOOSE k \in 1..Len(s) :
                      ~IsSpace(s[k]) /\ \A j \in (k + 1)..Len(s) : IsSpace(s[j])
         IN  SubSeq(s, 1, l)

\* str.strip()
Strip(s) == RStrip(LStrip(s))

\* str.split(sep) for a one-character sep: always at least one piece
RECURSIVE Split(_, _)
Split(s, sep) ==
    LET k == IndexOf(s, sep)
    IN  IF k = 0
        THEN <<s>>
        ELSE <<SubSeq(s, 1, k - 1)>> \o Split(SubSeq(s, k + 1, Len(s)), sep)

\* sep.join(parts)
RECURSIVE Join(_, _)
Join(sep, parts) ==
    IF Len(parts) = 0 THEN <<>>
    ELSE IF Len(parts) = 1 THEN parts[1]
    ELSE parts[1] \o sep \o Join(sep, Tail(parts))

\* filter(None, parts): the non-empty strings
NonEmpty(s) == s # <<>>

FilterNone(parts) == SelectSeq(parts, NonEmpty)

\* value of a string of decimal digits
RECURSIVE DecVal(_)
DecVal(s) ==
    IF Len(s) = 0 THEN 0
    ELSE DecVal(SubSeq(s, 1, Len(s) - 1)) * 10 + DigitVal(s[Len(s)])

\* int(s): surrounding whitespace and one sign are accepted; None stands for
\* the ValueError
PyInt(s) ==
    LET t == Strip(s)
        signed == Len(t) > 0 /\ t[1] \in {"-", "+"}
        d == IF signed THEN Tail(t) ELSE t
    IN  IF Len(d) > 0 /\ AllDigits(d)
        THEN Some(IF signed /\ t[1] = "-" THEN 0 - DecVal(d) ELSE DecVal(d))
        ELSE None

\* str(n) for n >= 0
RECURSIVE DecStr(_)
DecStr(n) ==
    IF n < 10 THEN <<DigitChars[n + 1]>>
    ELSE DecStr(n \div 10) \o <<DigitChars[(n % 10) + 1]>>

\* f"{n:02}" for n >= 0: zero-padded to a width of at least 2
Format02(n) == IF n < 10 THEN <<"0">> \o DecStr(n) ELSE DecStr(n)

---------------------------------------------------------------------------
(* Timestamp codec *)

\* timestamp_to_seconds without the cut at the decimal point
timestamp_to_seconds_KeepFraction(ts_str) ==
    LET fields == Split(ts_str, ":")
        parts == [k \in 1..Len(fields) |-> PyInt(fields[k])]
    IN  IF \E k \in 1..Len(parts) : IsNone(parts[k])
        THEN None
        ELSE IF Len(parts) = 3
        THEN Some(Val(parts[1]) * 3600 + Val(parts[2]) * 60 + Val(parts[3]))
        ELSE IF Len(parts) = 2
        THEN Some(Val(parts[1]) * 60 + Val(parts[2]))
        ELSE None

\* timestamp_to_seconds reading two fields as hours and minutes
timestamp_to_seconds_TwoFieldsAsHours(ts_str) ==
    LET head == Split(ts_str, ".")[1]
        fields == Split(head, ":")
        parts == [k \in 1..Len(fields) |-> PyInt(fields[k])]
    IN  IF \E k \in 1..Len(parts) : IsNone(parts[k])
        THEN None
        ELSE IF Len(parts) = 3
        THEN Some(Val(parts[1]) * 3600 + Val(parts[2]) * 60 + Val(parts[3]))
        ELSE IF Len(parts) = 2
        THEN Some(Val(parts[1]) * 3600 + Val(parts[2]) * 60)
        ELSE None

timestamp_to_seconds(ts_str) ==
    LET head == Split(ts_str, ".")[1]
        fields == Split(head, ":")
        parts == [k \in 1..Len(fields) |-> PyInt(fields[k])]
    IN  IF \E k \in 1..Len(parts) : IsNone(parts[k])
        THEN None
        ELSE IF Len(parts) = 3
        THEN Some(Val(parts[1]) * 3600 + Val(parts[2]) * 60 + Val(parts[3]))
        ELSE IF Len(parts) = 2
        THEN Some(Val(parts[1]) * 60 + Val(parts[2]))
        ELSE None

\* seconds_to_timestamp taking the minutes of the total, not of the remainder
seconds_to_timestamp_TotalMinutes(total_seconds) ==
    LET total == IF IsNone(total_seconds) \/ Val(total_seconds) < 0
                 THEN 0 ELSE Val(total_seconds)
    IN  Format02(total \div 3600) \o <<":">> \o Format02(total \div 60)
            \o <<":">> \o Format02(total % 60)

seconds_to_timestamp(total_seconds) ==
    LET total == IF IsNone(total_seconds) \/ Val(total_seconds) < 0
                 THEN 0 ELSE Val(total_seconds)
        hours == total \div 3600
        remainder == total % 3600
        minutes == remainder \div 60
        seconds == remainder % 60
    IN  Format02(hours) \o <<":">> \o Format02(minutes) \o <<":">> \o Format02(seconds)

---------------------------------------------------------------------------
(* Line classifier: line_regex.  The pattern, anchored at both ends, is an
   opening bracket, a timestamp body of two or three two-digit fields with an
   optional fraction, a closing bracket, optional whitespace, a lazy run of
   one or more non-colon characters (the speaker), a colon, optional
   whitespace, and the rest of the line (the text). *)

\* two digits, colon, two digits, with an optional third field
ClockMatches(m) ==
    /\ Len(m) \in {5, 8}
    /\ \A k \in 1..Len(m) : IF k % 3 = 0 THEN m[k] = ":" ELSE IsDigit(m[k])

\* the timestamp body: the clock, then optionally a dot and one or more digits
TsBodyMatches(b) ==
    LET dot == IndexOf(b, ".")
        clock == IF dot = 0 THEN b ELSE SubSeq(b, 1, dot - 1)
        frac == IF dot = 0 THEN <<>> ELSE SubSeq(b, dot + 1, Len(b))
    IN  /\ ClockMatches(clock)
        /\ dot # 0 => (Len(frac) >= 1 /\ AllDigits(frac))

\* line_regex.match(line): None, or the three groups.  The body holds no "]",
\* so it ends at the first one; the speaker holds no ":", so the whitespace and speaker
\* spans the non-empty stretch up to the first ":" after the bracket, the
\* greedy whitespace run taking its leading whitespace but leaving the group one character.
line_regex(line) ==
    LET close == IndexOf(line, "]")
        body == SubSeq(line, 2, close - 1)
        rest == SubSeq(line, close + 1, Len(line))
        colon == IndexOf(rest, ":")
        before == SubSeq(rest, 1, colon - 1)
        after == SubSeq(rest, colon + 1, Len(rest))
    IN  IF /\ Len(line) > 0
           /\ line[1] = "["
           /\ close > 0
           /\ TsBodyMatches(body)
           /\ colon > 1
        THEN Some([ts_str |-> body,
                   speaker |-> IF LStrip(before) = <<>>
                               THEN <<before[Len(before)]>>
                               ELSE LStrip(before),
                   text |-> LStrip(after)])
        ELSE None

---------------------------------------------------------------------------
(* Segment merger: process_transcript *)

max_segment_duration == 30

\* f"[{current_segment_start_ts_str}] {current_speaker}: {segment_text}" with
\* segment_text = ' '.join(filter(None, current_text_parts))
SegmentLine(ts_str, speaker, text_parts) ==
    <<"[">> \o ts_str \o <<"]", " ">> \o speaker \o <<":", " ">>
        \o Join(<<" ">>, FilterNone(text_parts))

\* start_new_segment with the window test written >= instead of >
start_new_segment_GE(cur_speaker, cur_start_seconds, speaker, current_seconds) ==
    \/ IsNone(cur_speaker)
    \/ speaker # Val(cur_speaker)
    \/ /\ ~IsNone(cur_start_seconds)
       /\ current_seconds - Val(cur_start_seconds) >= max_segment_duration

\* start_new_segment comparing speakers without regard to case
UpperCase(s) == [k \in 1..Len(s) |-> IF s[k] = "a" THEN "A" ELSE s[k]]

start_new_segment_IgnoreCase(cur_speaker, cur_start_seconds, speaker, current_seconds) ==
    \/ IsNone(cur_speaker)
    \/ UpperCase(speaker) # UpperCase(Val(cur_speaker))
    \/ /\ ~IsNone(cur_start_seconds)
       /\ current_seconds - Val(cur_start_seconds) > max_segment_duration

\* start_new_segment without the window test
start_new_segment_NoWindow(cur_speaker, cur_start_seconds, speaker, current_seconds) ==
    \/ IsNone(cur_speaker)
    \/ speaker # Val(cur_speaker)

\* the decision of lines 154-160
start_new_segment(cur_speaker, cur_start_seconds, speaker, current_seconds) ==
    IF IsNone(cur_speaker) THEN TRUE
    ELSE IF speaker # Val(cur_speaker) THEN TRUE
    ELSE IF ~IsNone(cur_start_seconds)
            /\ current_seconds - Val(cur_start_seconds) > max_segment_duration
    THEN TRUE
    ELSE FALSE

\* the loop's state as one value
NoSegment(out) ==
    [output_lines |-> out,
     current_segment_start_ts_str |-> None,
     current_segment_start_seconds |-> None,
     current_speaker |-> None,
     current_text_parts |-> <<>>]

\* Passthrough that flushes the open segment but leaves it open
Passthrough_KeepOpen(st, line) ==
    IF ~IsNone(st.current_speaker)
    THEN [st EXCEPT !.output_lines =
             Append(Append(st.output_lines,
                           SegmentLine(Val(st.current_segment_start_ts_str),
                                       Val(st.current_speaker), st.current_text_parts)),
                    line)]
    ELSE [st EXCEPT !.output_lines = Append(st.output_lines, line)]

\* Passthrough that closes the segment but keeps its text parts
Passthrough_StaleParts(st, line) ==
    IF ~IsNone(st.current_speaker)
    THEN [NoSegment(Append(
              Append(st.output_lines,
                     SegmentLine(Val(st.current_segment_start_ts_str),
                                 Val(st.current_speaker), st.current_text_parts)),
              line))
          EXCEPT !.current_text_parts = st.current_text_parts]
    ELSE [st EXCEPT !.output_lines = Append(st.output_lines, line)]

\* lines 135-144: a line the pattern does not match
Passthrough(st, line) ==
    IF ~IsNone(st.current_speaker)
    THEN NoSegment(Append(
             Append(st.output_lines,
                    SegmentLine(Val(st.current_segment_start_ts_str),
                                Val(st.current_speaker), st.current_text_parts)),
             line))
    ELSE [st EXCEPT !.output_lines = Append(st.output_lines, line)]

\* lines 162-170: flush the open segment, if any, and open a new one
OpenSegment(st, speaker, text, current_seconds) ==
    [output_lines |->
         IF ~IsNone(st.current_speaker)
         THEN Append(st.output_lines,
                     SegmentLine(Val(st.current_segment_start_ts_str),
                                 Val(st.current_speaker), st.current_text_parts))
         ELSE st.output_lines,
     current_segment_start_ts_str |-> Some(seconds_to_timestamp(Some(current_seconds))),
     current_segment_start_seconds |-> Some(current_seconds),
     current_speaker |-> Some(speaker),
     current_text_parts |-> <<text>>]

\* ExtendSegment appending the text even when it is empty
ExtendSegment_AppendAlways(st, text) ==
    [st EXCEPT !.current_text_parts = Append(st.current_text_parts, text)]

\* ExtendSegment putting the new text in front of the parts
ExtendSegment_Prepend(st, text) ==
    IF text # <<>>
    THEN [st EXCEPT !.current_text_parts = <<text>> \o st.current_text_parts]
    ELSE st

\* lines 171-173: extend the open segment
ExtendSegment(st, text) ==
    IF text # <<>>
    THEN [st EXCEPT !.current_text_parts = Append(st.current_text_parts, text)]
    ELSE st

\* Caption moving the segment's start to each caption it merges
Caption_SlidingStart(st, groups) ==
    LET speaker == Strip(groups.speaker)
        text == Strip(groups.text)
        current_seconds == timestamp_to_seconds(groups.ts_str)
    IN  IF IsNone(current_seconds)
        THEN st
        ELSE IF start_new_segment(st.current_speaker, st.current_segment_start_seconds,
                                  speaker, Val(current_seconds))
        THEN OpenSegment(st, speaker, text, Val(current_seconds))
        ELSE [ExtendSegment(st, text)
              EXCEPT !.current_segment_start_seconds = current_seconds,
                     !.current_segment_start_ts_str =
                         Some(seconds_to_timestamp(current_seconds))]

\* lines 146-173: a line the pattern matches
Caption(st, groups) ==
    LET speaker == Strip(groups.speaker)
        text == Strip(groups.text)
        current_seconds == timestamp_to_seconds(groups.ts_str)
    IN  IF IsNone(current_seconds)
        THEN st
        ELSE IF start_new_segment(st.current_speaker, st.current_segment_start_seconds,
                                  speaker, Val(current_seconds))
        THEN OpenSegment(st, speaker, text, Val(current_seconds))
        ELSE ExtendSegment(st, text)

\* LoopBody without the skip of empty lines
LoopBody_NoBlankSkip(st, raw) ==
    LET line == Strip(raw)
        match == line_regex(line)
    IN  IF IsNone(match) THEN Passthrough(st, line) ELSE Caption(st, Val(match))

\* lines 130-173: one iteration of the for loop
LoopBody(st, raw) ==
    LET line == Strip(raw)
        match == line_regex(line)
    IN  IF line = <<>> THEN st
        ELSE IF IsNone(match) THEN Passthrough(st, line)
        ELSE Caption(st, Val(match))

\* FinalFlush without its guard: an empty line when no segment is open
FinalFlush_EmptyLine(st) ==
    IF ~IsNone(st.current_speaker)
    THEN Append(st.output_lines,
                SegmentLine(Val(st.current_segment_start_ts_str),
                            Val(st.current_speaker), st.current_text_parts))
    ELSE Append(st.output_lines, <<>>)

\* FinalFlush that returns without flushing the open segment
FinalFlush_Skip(st) == st.output_lines

\* lines 175-177: the flush after the loop
FinalFlush(st) ==
    IF ~IsNone(st.current_speaker)
    THEN Append(st.output_lines,
                SegmentLine(Val(st.current_segment_start_ts_str),
                            Val(st.current_speaker), st.current_text_parts))
    ELSE st.output_lines

\* the for loop over a whole input
RECURSIVE RunLoop(_, _)
RunLoop(st, ls) ==
    IF Len(ls) = 0 THEN st ELSE RunLoop(LoopBody(st, Head(ls)), Tail(ls))

\* process_transcript as a function of the split input: the output lines
process_transcript(ls) == FinalFlush(RunLoop(NoSegment(<<>>), ls))

---------------------------------------------------------------------------
(* Inputs *)

MaxLines == 3

MaxWideLines == 2

MaxCodecSeconds == 150

\* "[ts] speaker: text", as the transcription prompt asks for it
CaptionLine(ts, speaker, text) ==
    <<"[">> \o ts \o <<"]", " ">> \o speaker \o <<":">>
        \o (IF text = <<>> THEN <<>> ELSE <<" ">> \o text)

\* the timestamps 00:00, 00:20.5, 00:30 and 00:00:31: gaps below, at and above
\* the window; two speakers that differ in case only
Ts0000 == <<"0", "0", ":", "0", "0">>

Ts0020 == <<"0", "0", ":", "2", "0", ".", "5">>

Ts0030 == <<"0", "0", ":", "3", "0">>

Ts0031 == <<"0", "0", ":", "0", "0", ":", "3", "1">>

Speakers == { <<"A">>, <<"a">> }

CaptionLines ==
    { CaptionLine(Ts0000, <<"A">>, <<"x">>),
      CaptionLine(Ts0020, <<"A">>, <<"y", " ", "z">>),
      CaptionLine(Ts0030, <<"A">>, <<"w">>),
      CaptionLine(Ts0031, <<"A">>, <<"v">>),
      CaptionLine(Ts0000, <<"A">>, <<>>),
      CaptionLine(Ts0000, <<"a">>, <<"u">>),
      CaptionLine(Ts0030, <<"a">>, <<"x">>) }

BadLine == <<"[", "b", "a", "d", "]", " ", "A", ":", " ", "x">>

HeaderLine == <<"h", "d", "r">>

OtherLines ==
    { <<>>,                                                   \* empty
      <<" ">>,                                                \* whitespace only
      HeaderLine,
      BadLine,                                                \* [bad] A: x
      <<" ", "[", "0", "0", ":", "0", "0", "]", " ", " ", "A", " ", ":",
        " ", "x", " ">>,                                      \* padded fields
      <<"[", "0", "0", ":", "0", "0", "]", " ", ":", " ", "x">> }  \* blank speaker

LineSet == CaptionLines \cup OtherLines

\* timestamps that are ragged or run past the two-digit hour
WideTsTexts ==
    { <<"5", "9", ":", "5", "9">>,
      <<"9", "9", ":", "9", "9">>,
      <<"9", "9", ":", "5", "9", ":", "5", "9">>,
      <<"9", "9", ":", "6", "0", ":", "0", "0">>,
      <<"9", "9", ":", "9", "9", ":", "9", "9">> }

WideLineSet == { CaptionLine(ts, sp, <<"x">>) : ts \in WideTsTexts, sp \in Speakers }

SeqsUpTo(S, n) == UNION { [1..k -> S] : k \in 0..n }

\* every timestamp body the pattern accepts whose digits are 0, 5 or 9
CodecFields == { <<a, b>> : a \in {"0", "5", "9"}, b \in {"0", "5", "9"} }

CodecTexts ==
    { m \o <<":">> \o sec : m \in CodecFields, sec \in CodecFields }
    \cup { h \o <<":">> \o m \o <<":">> \o sec :
              h \in CodecFields, m \in CodecFields, sec \in CodecFields }
    \cup { <<"0", "0", ":", "0", "5", ".", "7", "5">>,
           <<"1", ":", "0", "2">>,
           <<"b", "a", "d">>,
           <<"5">>,
           <<"1", ":", "2", ":", "3", ":", "4">>,
           <<"0", "0", ":", "0", "x">>,
           <<"-", "1", ":", "0", "0">>,
           <<>> }

CodecSeconds ==
    { None, Some(0 - 1), Some(0 - 3600) }
    \cup { Some(n) : n \in 0..MaxCodecSeconds }
    \cup { Some(n) : n \in {3599, 3600, 3661, 86399, 359999, 360000, 362439} }

CodecIdle ==
    [pc |-> "idle", ts_str |-> None, seconds |-> None,
     formatted |-> None, reparsed |-> None]

---------------------------------------------------------------------------
(* process_transcript as a state machine *)

CurState ==
    [output_lines |-> output_lines,
     current_segment_start_ts_str |-> current_segment_start_ts_str,
     current_segment_start_seconds |-> current_segment_start_seconds,
     current_speaker |-> current_speaker,
     current_text_parts |-> current_text_parts]

InitLocals ==
    /\ i = 1
    /\ pc = "loop"
    /\ output_lines = <<>>
    /\ current_segment_start_ts_str = None
    /\ current_segment_start_seconds = None
    /\ current_speaker = None
    /\ current_text_parts = <<>>
    /\ result = None

Init ==
    /\ lines \in SeqsUpTo(LineSet, MaxLines)
    /\ InitLocals
    /\ codec = CodecIdle

InitWide ==
    /\ lines \in SeqsUpTo(WideLineSet, MaxWideLines)
    /\ InitLocals
    /\ codec = CodecIdle

\* one iteration of the for loop, lines 129-173
ProcessLine ==
    /\ pc = "loop"
    /\ i <= Len(lines)
    /\ LET st == LoopBody(CurState, lines[i])
       IN  /\ output_lines' = st.output_lines
           /\ current_segment_start_ts_str' = st.current_segment_start_ts_str
           /\ current_segment_start_seconds' = st.current_segment_start_seconds
           /\ current_speaker' = st.current_speaker
           /\ current_text_parts' = st.current_text_parts
    /\ i' = i + 1
    /\ UNCHANGED <<lines, pc, result, codec>>

\* the end of the loop, lines 175-179
Finish ==
    /\ pc = "loop"
    /\ i > Len(lines)
    /\ output_lines' = FinalFlush(CurState)
    /\ result' = Some(Join(<<"\n">>, output_lines'))
    /\ pc' = "done"
    /\ UNCHANGED <<lines, i, current_segment_start_ts_str,
                   current_segment_start_seconds, current_speaker,
                   current_text_parts, codec>>

Next == ProcessLine \/ Finish

Spec == Init /\ [][Next]_vars

(* The loop is sequential code: an iteration or the return that can be taken
   is taken, which is weak fairness of ProcessLine and of Finish. ProcessLine
   can be taken exactly while pc = "loop" and i <= Len(lines), and each
   iteration changes i, so its fairness condition is written with that
   enabling condition in place of ENABLED <<ProcessLine>>_vars. *)
SpecFair ==
    /\ Spec
    /\ WF_vars(Finish)
    /\ []<>(~(pc = "loop" /\ i <= Len(lines))) \/ []<><<ProcessLine>>_vars

SpecWide == InitWide /\ [][Next]_vars

(* Line 119 on a text: input_text.strip().splitlines(). A text is a sequence
   of characters in which "\n" ends a line. *)
IsTextSpace(c) == c = " " \/ c = "\n"

StripText(text) ==
    IF \A k \in 1..Len(text) : IsTextSpace(text[k])
    THEN <<>>
    ELSE LET first == CHOOSE k \in 1..Len(text) :
                          /\ ~IsTextSpace(text[k])
                          /\ \A j \in 1..(k - 1) : IsTextSpace(text[j])
             last == CHOOSE k \in 1..Len(text) :
                         /\ ~IsTextSpace(text[k])
                         /\ \A j \in (k + 1)..Len(text) : IsTextSpace(text[j])
         IN  SubSeq(text, first, last)

\* str.splitlines(): no line for the empty text, none after a final newline
SplitLines(text) ==
    IF text = <<>> THEN <<>>
    ELSE IF text[Len(text)] = "\n"
    THEN Split(SubSeq(text, 1, Len(text) - 1), "\n")
    ELSE Split(text, "\n")

\* inputs whose output a second pass could treat differently: segments a
\* window apart, empty texts, a blank speaker, timestamps of an hour and more
\* and of a hundred hours and more, passthrough lines
MaxIdemLines == 3

Ts6101 == <<"6", "1", ":", "0", "1">>

Ts9960 == <<"9", "9", ":", "6", "0", ":", "0", "0">>

Ts9961 == <<"9", "9", ":", "6", "0", ":", "3", "1">>

IdemLineSet ==
    { CaptionLine(Ts0000, <<"A">>, <<"x">>),
      CaptionLine(Ts0000, <<"A">>, <<>>),
      CaptionLine(Ts0030, <<"A">>, <<"w">>),
      CaptionLine(Ts0031, <<"A">>, <<"v">>),
      CaptionLine(Ts0020, <<"a">>, <<"y", " ", "z">>),
      CaptionLine(Ts6101, <<"A">>, <<"x">>),
      CaptionLine(Ts9960, <<"A">>, <<"x">>),
      CaptionLine(Ts9960, <<"A">>, <<>>),
      CaptionLine(Ts9961, <<"A">>, <<"w">>),
      <<"[", "0", "0", ":", "0", "0", "]", " ", ":", " ", "x">>,
      HeaderLine,
      <<" ">> }

InitIdem ==
    /\ lines \in SeqsUpTo(IdemLineSet, MaxIdemLines)
    /\ InitLocals
    /\ codec = CodecIdle

SpecIdem == InitIdem /\ [][Next]_vars

---------------------------------------------------------------------------
(* The timestamp codec on its own: parse, format, parse again *)

InitCodec ==
    /\ lines = <<>>
    /\ InitLocals
    /\ \/ \E t \in CodecTexts :
              codec = [CodecIdle EXCEPT !.pc = "parse", !.ts_str = Some(t)]
       \/ \E n \in CodecSeconds :
              codec = [CodecIdle EXCEPT !.pc = "format", !.seconds = n]

CodecParse ==
    /\ codec.pc = "parse"
    /\ codec' = [codec EXCEPT !.seconds = timestamp_to_seconds(Val(codec.ts_str)),
                              !.pc = "format"]
    /\ UNCHANGED <<lines, i, pc, output_lines, current_segment_start_ts_str,
                   current_segment_start_seconds, current_speaker,
                   current_text_parts, result>>

CodecFormat ==
    /\ codec.pc = "format"
    /\ codec' = [codec EXCEPT !.formatted = Some(seconds_to_timestamp(codec.seconds)),
                              !.pc = "reparse"]
    /\ UNCHANGED <<lines, i, pc, output_lines, current_segment_start_ts_str,
                   current_segment_start_seconds, current_speaker,
                   current_text_parts, result>>

CodecReparse ==
    /\ codec.pc = "reparse"
    /\ codec' = [codec EXCEPT !.reparsed = timestamp_to_seconds(Val(codec.formatted)),
                              !.pc = "done"]
    /\ UNCHANGED <<lines, i, pc, output_lines, current_segment_start_ts_str,
                   current_segment_start_seconds, current_speaker,
                   current_text_parts, result>>

NextCodec == CodecParse \/ CodecFormat \/ CodecReparse

SpecCodec == InitCodec /\ [][NextCodec]_vars

---------------------------------------------------------------------------
(* Vocabulary of the properties *)

\* a line with nothing but whitespace
IsBlankLine(raw) == \A k \in 1..Len(raw) : raw[k] = " "

\* a line the loop takes as a caption: it matches the pattern and its
\* timestamp parses
IsCaption(raw) ==
    /\ ~IsBlankLine(raw)
    /\ ~IsNone(line_regex(Strip(raw)))
    /\ ~IsNone(timestamp_to_seconds(Val(line_regex(Strip(raw))).ts_str))

\* a non-blank line the pattern does not match
IsPassthrough(raw) == ~IsBlankLine(raw) /\ IsNone(line_regex(Strip(raw)))

CapTs(raw) == Val(line_regex(Strip(raw))).ts_str

CapSeconds(raw) == Val(timestamp_to_seconds(CapTs(raw)))

CapSpeaker(raw) == Strip(Val(line_regex(Strip(raw))).speaker)

CapText(raw) == Strip(Val(line_regex(Strip(raw))).text)

Within(a, b) == a - b <= max_segment_duration /\ b - a <= max_segment_duration

\* the timestamp an output caption line carries: what stands in its brackets
OutTs(out) == SubSeq(out, 2, IndexOf(out, "]") - 1)

IsPrefix(p, q) == Len(p) <= Len(q) /\ SubSeq(q, 1, Len(p)) = p

\* the loop is about to process lines[i]
AtLine == pc = "loop" /\ i <= Len(lines)

SegmentOpen == ~IsNone(current_speaker)

\* the output line the open segment is flushed as
OpenSegmentLine ==
    <<"[">> \o Val(current_segment_start_ts_str) \o <<"]", " ">>
        \o Val(current_speaker) \o <<":", " ">>
        \o Join(<<" ">>, FilterNone(current_text_parts))

\* the input is a run of captions of one speaker, pairwise within the window
OneSpeakerInWindow ==
    /\ Len(lines) >= 1
    /\ \A k \in 1..Len(lines) : IsCaption(lines[k])
    /\ \A j, k \in 1..Len(lines) :
           /\ CapSpeaker(lines[j]) = CapSpeaker(lines[k])
           /\ Within(CapSeconds(lines[j]), CapSeconds(lines[k]))

---------------------------------------------------------------------------
(* C1: a run of valid captions of one speaker whose timestamps are pairwise
   within max_segment_duration (a difference equal to it included) gives
   exactly one output line, and its timestamp is seconds_to_timestamp of the
   first line's parsed seconds. *)
C1_OneLineFirstTimestamp ==
    (pc = "done" /\ OneSpeakerInWindow) =>
        /\ Len(output_lines) = 1
        /\ OutTs(output_lines[1])
               = seconds_to_timestamp(timestamp_to_seconds(CapTs(lines[1])))
        /\ IsPrefix(<<"[">> \o OutTs(output_lines[1]) \o <<"]", " ">>
                        \o CapSpeaker(lines[1]) \o <<":">>,
                    output_lines[1])

\* three captions merged, two of them exactly max_segment_duration apart, the
\* first neither written in normal form nor equal in time to the last
C1_Witness ==
    /\ pc = "done"
    /\ OneSpeakerInWindow
    /\ Len(lines) = 3
    /\ \E j, k \in 1..3 :
           CapSeconds(lines[j]) - CapSeconds(lines[k]) = max_segment_duration
    /\ CapSeconds(lines[1]) # CapSeconds(lines[3])
    /\ CapTs(lines[1]) # OutTs(output_lines[1])
    /\ Len(output_lines) = 1

(* C2: a caption whose trimmed speaker differs (case-sensitively) from the
   open segment's speaker flushes the open segment and opens a new one for
   the new speaker, whatever the two timestamps are. *)
C2_SpeakerChangeStartsNewLine ==
    [][ (/\ AtLine
         /\ IsCaption(lines[i])
         /\ SegmentOpen
         /\ CapSpeaker(lines[i]) # Val(current_speaker))
        => (/\ output_lines' = Append(output_lines, OpenSegmentLine)
            /\ current_speaker' = Some(CapSpeaker(lines[i]))
            /\ current_segment_start_seconds' = Some(CapSeconds(lines[i]))
            /\ current_text_parts' = <<CapText(lines[i])>>) ]_vars

\* a speaker change to an earlier timestamp, with speakers that differ in case only
C2_Witness ==
    /\ pc = "loop"
    /\ i = 3
    /\ IsCaption(lines[1])
    /\ IsCaption(lines[2])
    /\ CapSpeaker(lines[1]) = <<"A">>
    /\ CapSpeaker(lines[2]) = <<"a">>
    /\ CapSeconds(lines[2]) < CapSeconds(lines[1])
    /\ Len(output_lines) = 1
    /\ current_speaker = Some(<<"a">>)

(* C3: a caption of the open segment's speaker whose seconds exceed the
   segment's start by more than max_segment_duration flushes the open segment
   and opens a new one starting at that caption's timestamp; its text is not
   appended to the old segment. *)
C3_GapStartsNewSegment ==
    [][ (/\ AtLine
         /\ IsCaption(lines[i])
         /\ SegmentOpen
         /\ CapSpeaker(lines[i]) = Val(current_speaker)
         /\ CapSeconds(lines[i]) - Val(current_segment_start_seconds)
                > max_segment_duration)
        => (/\ output_lines' = Append(output_lines, OpenSegmentLine)
            /\ current_segment_start_seconds' = Some(CapSeconds(lines[i]))
            /\ current_segment_start_ts_str'
                   = Some(seconds_to_timestamp(Some(CapSeconds(lines[i]))))
            /\ current_speaker' = current_speaker
            /\ current_text_parts' = <<CapText(lines[i])>>) ]_vars

\* 00:00, then 00:20.5 merged, then 00:00:31 of the same speaker: 31 s after
\* the start though 11 s after the last caption
C3_Witness ==
    /\ pc = "loop"
    /\ i = 4
    /\ \A k \in 1..3 : IsCaption(lines[k]) /\ CapSpeaker(lines[k]) = <<"A">>
    /\ CapSeconds(lines[1]) = 0
    /\ CapSeconds(lines[2]) = 20
    /\ CapSeconds(lines[3]) = 31
    /\ Len(output_lines) = 1
    /\ current_segment_start_seconds = Some(31)

(* C4: a non-blank line the pattern does not match is emitted as an output
   line of its own, its trimmed text unchanged, after the flush of the open
   segment if there is one; afterwards no segment is open, so the captions
   before and after it are never merged. *)
C4_PassthroughForcesBoundary ==
    [][ (AtLine /\ IsPassthrough(lines[i]))
        => (/\ output_lines' =
                   (IF SegmentOpen THEN Append(output_lines, OpenSegmentLine)
                                   ELSE output_lines) \o <<Strip(lines[i])>>
            /\ current_speaker' = None
            /\ current_segment_start_ts_str' = None
            /\ current_segment_start_seconds' = None
            /\ current_text_parts' = <<>>) ]_vars

\* a header between two captions of one speaker at the same timestamp
C4_Witness ==
    /\ pc = "done"
    /\ Len(lines) = 3
    /\ IsCaption(lines[1])
    /\ lines[2] = HeaderLine
    /\ IsCaption(lines[3])
    /\ CapSpeaker(lines[1]) = CapSpeaker(lines[3])
    /\ CapSeconds(lines[1]) = CapSeconds(lines[3])
    /\ Len(output_lines) = 3
    /\ output_lines[2] = HeaderLine

---------------------------------------------------------------------------
\* a line shaped like a caption (bracket, speaker, colon) whose bracket holds
\* nothing timestamp_to_seconds can parse
UnusableTimestamp(line) ==
    LET close == IndexOf(line, "]")
        rest == SubSeq(line, close + 1, Len(line))
    IN  /\ Len(line) > 0
        /\ line[1] = "["
        /\ close > 0
        /\ IndexOf(rest, ":") > 1
        /\ IsNone(timestamp_to_seconds(SubSeq(line, 2, close - 1)))

(* C5: a caption-shaped line with an unusable timestamp is dropped: the step
   that processes it leaves the output and the open segment as they were. *)
C5_UnusableTimestampDropped ==
    [][ (AtLine /\ UnusableTimestamp(Strip(lines[i])))
        => UNCHANGED <<output_lines, current_segment_start_ts_str,
                       current_segment_start_seconds, current_speaker,
                       current_text_parts>> ]_vars

\* the output after the first n lines
OutAfter(n) == RunLoop(NoSegment(<<>>), SubSeq(lines, 1, n)).output_lines

\* captions j < k were merged into one segment: nothing was emitted from the
\* step of line j to the step of line k
SameSegment(j, k) ==
    /\ j < k
    /\ IsCaption(lines[j])
    /\ IsCaption(lines[k])
    /\ Len(OutAfter(j)) = Len(OutAfter(k))

(* C6: whatever the order of the timestamps, no two captions merged into one
   segment are more than max_segment_duration apart. *)
C6_SegmentSpanCapped ==
    \A j, k \in 1..(i - 1) :
        SameSegment(j, k) => Within(CapSeconds(lines[j]), CapSeconds(lines[k]))

---------------------------------------------------------------------------
\* the words of a text
Words(text) == FilterNone(Split(text, " "))

\* what a line carries: nothing when blank, itself when no caption, else
\* its words, each under its speaker
Units(raw) ==
    LET line == Strip(raw)
        match == line_regex(line)
    IN  IF IsBlankLine(raw) THEN <<>>
        ELSE IF IsNone(match) THEN << [speaker |-> None, word |-> line] >>
        ELSE IF IsNone(timestamp_to_seconds(Val(match).ts_str)) THEN <<>>
        ELSE LET speaker == Strip(Val(match).speaker)
                 words == Words(Strip(Val(match).text))
             IN  [k \in 1..Len(words) |-> [speaker |-> Some(speaker), word |-> words[k]]]

RECURSIVE AllUnits(_)
AllUnits(ls) == IF Len(ls) = 0 THEN <<>> ELSE Units(Head(ls)) \o AllUnits(Tail(ls))

\* the output so far, the open segment taken as the line it will be flushed as
OutputSoFar ==
    IF pc = "loop" /\ SegmentOpen
    THEN Append(output_lines, OpenSegmentLine)
    ELSE output_lines

(* C7: the output carries the passthrough texts and the words of the
   captions of the lines read so far, each once, in input order, each word
   under the speaker it had in the input. *)
C7_OrderAndContentPreserved ==
    AllUnits(OutputSoFar) = AllUnits(SubSeq(lines, 1, i - 1))

\* a two-word caption and a one-word caption merged, then a header
C7_Witness ==
    /\ pc = "done"
    /\ Len(lines) = 3
    /\ IsCaption(lines[1])
    /\ IsCaption(lines[2])
    /\ Len(Words(CapText(lines[1]))) = 2
    /\ Len(Words(CapText(lines[2]))) = 1
    /\ lines[3] = HeaderLine
    /\ Len(output_lines) = 2
    /\ Len(AllUnits(output_lines)) = 4

---------------------------------------------------------------------------
\* HH:MM:SS, two digits a field, minutes and seconds below 60
WellFormedHms(ts) ==
    /\ Len(ts) = 8
    /\ \A k \in {1, 2, 4, 5, 7, 8} : IsDigit(ts[k])
    /\ ts[3] = ":" /\ ts[6] = ":"
    /\ DecVal(SubSeq(ts, 4, 5)) < 60
    /\ DecVal(SubSeq(ts, 7, 8)) < 60

HmsSeconds(ts) ==
    DecVal(SubSeq(ts, 1, 2)) * 3600 + DecVal(SubSeq(ts, 4, 5)) * 60
        + DecVal(SubSeq(ts, 7, 8))

\* an output line that is a flushed segment, not a passthrough of the input
IsEmittedCaption(out) ==
    ~\E j \in 1..Len(lines) : IsPassthrough(lines[j]) /\ Strip(lines[j]) = out

(* C8: every caption line emitted carries a timestamp HH:MM:SS of exactly two
   digits a field, minutes and seconds below 60, worth the seconds of a
   caption of the input; so does the open segment. *)
C8_EmittedTimestampsWellFormed ==
    /\ \A k \in 1..Len(output_lines) :
           IsEmittedCaption(output_lines[k]) =>
               /\ WellFormedHms(OutTs(output_lines[k]))
               /\ \E j \in 1..Len(lines) :
                      /\ IsCaption(lines[j])
                      /\ HmsSeconds(OutTs(output_lines[k])) = CapSeconds(lines[j])
    /\ SegmentOpen =>
           /\ WellFormedHms(Val(current_segment_start_ts_str))
           /\ HmsSeconds(Val(current_segment_start_ts_str))
                  = Val(current_segment_start_seconds)

---------------------------------------------------------------------------
NotBlankLine(raw) == ~IsBlankLine(raw)

(* C9: blank lines contribute nothing: the output for an input is the output
   for the same input with its empty and whitespace-only lines taken out. *)
C9_BlankLinesInert ==
    pc = "done" =>
        /\ output_lines = process_transcript(SelectSeq(lines, NotBlankLine))
        /\ \A k \in 1..Len(output_lines) : ~IsBlankLine(output_lines[k])

\* a whitespace-only line between two captions of one speaker in the window,
\* which are merged all the same
C9_Witness ==
    /\ pc = "done"
    /\ Len(lines) = 3
    /\ IsCaption(lines[1])
    /\ lines[2] = <<" ">>
    /\ IsCaption(lines[3])
    /\ CapSpeaker(lines[1]) = CapSpeaker(lines[3])
    /\ CapSeconds(lines[3]) - CapSeconds(lines[1]) = 20
    /\ Len(output_lines) = 1

---------------------------------------------------------------------------
(* C10: for every n >= 0 that timestamp_to_seconds returns or that is given
   to seconds_to_timestamp, parsing the formatted n gives n back, and
   formatting that again gives the same string. *)
C10_CodecStable ==
    (codec.pc = "done" /\ ~IsNone(codec.seconds) /\ Val(codec.seconds) >= 0) =>
        /\ codec.reparsed = codec.seconds
        /\ seconds_to_timestamp(codec.reparsed) = Val(codec.formatted)

\* a ragged timestamp that runs past 99 hours, normalised and read back
C10_Witness ==
    /\ codec.pc = "done"
    /\ ~IsNone(codec.ts_str)
    /\ ~IsNone(codec.seconds)
    /\ Val(codec.seconds) >= 360000
    /\ Val(codec.formatted) # Val(codec.ts_str)
    /\ codec.reparsed = codec.seconds

---------------------------------------------------------------------------
\* a field that reads as an integer: digits, with an optional sign, spaces
\* around them allowed
IsIntegerText(f) ==
    LET t == Strip(f)
        d == IF Len(t) > 0 /\ t[1] \in {"-", "+"} THEN Tail(t) ELSE t
    IN  Len(d) > 0 /\ \A k \in 1..Len(d) : d[k] \in {DigitChars[n] : n \in 1..10}

IntegerOf(f) ==
    LET t == Strip(f)
    IN  IF t[1] = "-" THEN 0 - DecVal(Tail(t))
        ELSE IF t[1] = "+" THEN DecVal(Tail(t))
        ELSE DecVal(t)

\* the colon-separated fields of a timestamp text, its fraction discarded
ClockFields(ts) == Split(Split(ts, ".")[1], ":")

Zero == <<"0", "0", ":", "0", "0", ":", "0", "0">>

(* C11: timestamp_to_seconds, the fraction discarded, gives m*60+s for two
   integer fields and h*3600+m*60+s for three, and None for any other field
   count or a field that is no integer; seconds_to_timestamp always gives a
   string, 00:00:00 for None and for a negative count. *)
C11_CodecContract ==
    /\ (codec.pc \in {"format", "reparse", "done"} /\ ~IsNone(codec.ts_str)) =>
           LET f == ClockFields(Val(codec.ts_str))
               numeric == \A k \in 1..Len(f) : IsIntegerText(f[k])
           IN  codec.seconds =
                   IF numeric /\ Len(f) = 2
                   THEN Some(IntegerOf(f[1]) * 60 + IntegerOf(f[2]))
                   ELSE IF numeric /\ Len(f) = 3
                   THEN Some(IntegerOf(f[1]) * 3600 + IntegerOf(f[2]) * 60
                                 + IntegerOf(f[3]))
                   ELSE None
    /\ codec.pc \in {"reparse", "done"} =>
           /\ ~IsNone(codec.formatted)
           /\ (IsNone(codec.seconds) \/ Val(codec.seconds) < 0) =>
                  codec.formatted = Some(Zero)

\* four fields: no seconds count, rendered as 00:00:00
C11_Witness ==
    /\ codec.pc = "done"
    /\ ~IsNone(codec.ts_str)
    /\ Len(ClockFields(Val(codec.ts_str))) = 4
    /\ IsNone(codec.seconds)
    /\ codec.formatted = Some(Zero)

---------------------------------------------------------------------------
AllBlank == \A k \in 1..Len(lines) : IsBlankLine(lines[k])

(* C12: for the empty input, and for one of blank lines only, nothing is
   emitted, no segment is ever opened, and the returned text is empty. *)
C12_EmptyInputEmptyOutput ==
    AllBlank =>
        /\ output_lines = <<>>
        /\ IsNone(current_speaker)
        /\ IsNone(current_segment_start_ts_str)
        /\ IsNone(current_segment_start_seconds)
        /\ current_text_parts = <<>>
        /\ pc = "done" => result = Some(<<>>)

\* the empty input, returned as the empty text
C12_Witness ==
    /\ pc = "done"
    /\ lines = <<>>
    /\ output_lines = <<>>
    /\ result = Some(<<>>)

(* C13: after every step either no segment is open (speaker, start
   timestamp text and start seconds unset, no text parts) or one is (all
   three set, at least one text part, the timestamp text being
   seconds_to_timestamp of the start seconds). *)
C13_SegmentStateConsistent ==
    \/ /\ IsNone(current_speaker)
       /\ IsNone(current_segment_start_ts_str)
       /\ IsNone(current_segment_start_seconds)
       /\ current_text_parts = <<>>
    \/ /\ ~IsNone(current_speaker)
       /\ ~IsNone(current_segment_start_ts_str)
       /\ ~IsNone(current_segment_start_seconds)
       /\ Len(current_text_parts) >= 1
       /\ Val(current_segment_start_ts_str)
              = seconds_to_timestamp(current_segment_start_seconds)

\* a segment closed by a header, then a new one opened at 00:20.5
C13_Witness ==
    /\ pc = "loop"
    /\ i = 4
    /\ IsCaption(lines[1])
    /\ lines[2] = HeaderLine
    /\ IsCaption(lines[3])
    /\ CapSeconds(lines[3]) = 20
    /\ Len(output_lines) = 2
    /\ current_segment_start_seconds = Some(20)
    /\ Len(current_text_parts) = 1

---------------------------------------------------------------------------
\* the caption at lines[i] is merged into the open segment: same speaker, not
\* more than max_segment_duration after its start
Extends ==
    /\ AtLine
    /\ IsCaption(lines[i])
    /\ SegmentOpen
    /\ CapSpeaker(lines[i]) = Val(current_speaker)
    /\ CapSeconds(lines[i]) - Val(current_segment_start_seconds)
           <= max_segment_duration

(* C14: merging a caption into the open segment changes nothing but its text
   parts: start seconds, start timestamp text and speaker stay those of the
   caption that opened it, and nothing is emitted. *)
C14_ExtendChangesOnlyTextParts ==
    [][ Extends =>
            /\ UNCHANGED <<current_segment_start_seconds,
                           current_segment_start_ts_str, current_speaker,
                           output_lines>>
            /\ current_text_parts' \in
                   {current_text_parts,
                    Append(current_text_parts, CapText(lines[i]))} ]_vars

\* 00:20.5 merged into the segment opened at 00:00, whose start stays 0
C14_Witness ==
    /\ pc = "loop"
    /\ i = 3
    /\ IsCaption(lines[1])
    /\ IsCaption(lines[2])
    /\ CapSpeaker(lines[1]) = CapSpeaker(lines[2])
    /\ CapSeconds(lines[1]) = 0
    /\ CapSeconds(lines[2]) = 20
    /\ current_segment_start_seconds = Some(0)
    /\ current_segment_start_ts_str = Some(Zero)
    /\ Len(current_text_parts) = 2
    /\ output_lines = <<>>

---------------------------------------------------------------------------
\* the non-empty parts, one space between neighbours
RECURSIVE Utterance(_)
Utterance(parts) ==
    IF Len(parts) = 0 THEN <<>>
    ELSE IF Head(parts) = <<>> THEN Utterance(Tail(parts))
    ELSE IF Utterance(Tail(parts)) = <<>> THEN Head(parts)
    ELSE Head(parts) \o <<" ">> \o Utterance(Tail(parts))

\* the caption at lines[i] has to start a segment
MustStart ==
    /\ AtLine
    /\ IsCaption(lines[i])
    /\ \/ ~SegmentOpen
       \/ CapSpeaker(lines[i]) # Val(current_speaker)
       \/ CapSeconds(lines[i]) - Val(current_segment_start_seconds)
              > max_segment_duration

(* C15: a caption with empty text that is merged leaves the open segment as
   it is; one that has to start a segment opens it, with the empty text as
   its only part; and a flushed segment's utterance is its non-empty parts
   with exactly one space between neighbours. *)
C15_EmptyUtterancesInert ==
    [][ /\ (Extends /\ CapText(lines[i]) = <<>>) =>
               UNCHANGED <<current_segment_start_seconds,
                           current_segment_start_ts_str, current_speaker,
                           current_text_parts, output_lines>>
        /\ (MustStart /\ CapText(lines[i]) = <<>>) =>
               /\ current_speaker' = Some(CapSpeaker(lines[i]))
               /\ current_segment_start_seconds' = Some(CapSeconds(lines[i]))
               /\ current_text_parts' = << <<>> >>
        /\ (SegmentOpen /\ Len(output_lines') > Len(output_lines)) =>
               output_lines'[Len(output_lines) + 1] =
                   <<"[">> \o Val(current_segment_start_ts_str) \o <<"]", " ">>
                       \o Val(current_speaker) \o <<":", " ">>
                       \o Utterance(current_text_parts) ]_vars

\* a segment opened with empty text, extended with "y z", emitted as "y z"
C15_Witness ==
    /\ pc = "done"
    /\ Len(lines) = 2
    /\ IsCaption(lines[1])
    /\ CapText(lines[1]) = <<>>
    /\ IsCaption(lines[2])
    /\ CapText(lines[2]) = <<"y", " ", "z">>
    /\ current_text_parts = << <<>>, <<"y", " ", "z">> >>
    /\ output_lines =
           << <<"[">> \o Zero \o <<"]", " ", "A", ":", " ", "y", " ", "z">> >>

---------------------------------------------------------------------------
\* the loop's state after the first n lines
StateAfter(n) == RunLoop(NoSegment(<<>>), SubSeq(lines, 1, n))

\* line k opened a segment: a caption met with no segment open, with another
\* speaker's open, or beyond the window of the open one
OpenedAt(k) ==
    /\ IsCaption(lines[k])
    /\ LET before == StateAfter(k - 1)
       IN  \/ IsNone(before.current_speaker)
           \/ CapSpeaker(lines[k]) # Val(before.current_speaker)
           \/ CapSeconds(lines[k]) - Val(before.current_segment_start_seconds)
                  > max_segment_duration

Opens(n) == Cardinality({k \in 1..n : OpenedAt(k)})

Passthroughs(n) == Cardinality({k \in 1..n : IsPassthrough(lines[k])})

\* every segment opened so far is emitted once or is the open one; at the
\* return none is left, the last one opened being the final output line
AllFlushed ==
    /\ pc = "loop" =>
           Len(output_lines) + (IF SegmentOpen THEN 1 ELSE 0)
               = Passthroughs(i - 1) + Opens(i - 1)
    /\ pc = "done" =>
           /\ Len(output_lines) = Passthroughs(Len(lines)) + Opens(Len(lines))
           /\ SegmentOpen => output_lines[Len(output_lines)] = OpenSegmentLine

(* C16: process_transcript returns on every input, and then every segment
   that was opened has been emitted exactly once, the one open at the end of
   the input as the final output line: the caption output lines are as many
   as the segments opened. *)
C16_TerminatesAllFlushed == <>(pc = "done") /\ []AllFlushed

\* two segments opened, the second extended and flushed at the end of input
C16_Witness ==
    /\ pc = "done"
    /\ Len(lines) = 3
    /\ Opens(3) = 2
    /\ OpenedAt(2)
    /\ IsCaption(lines[3])
    /\ SegmentOpen
    /\ Len(current_text_parts) = 2
    /\ Len(output_lines) = 2
    /\ output_lines[2] = OpenSegmentLine

---------------------------------------------------------------------------
\* a speaker name as the data model has it: non-empty, no embedded colon
ProperSpeaker(speaker) ==
    /\ speaker # <<>>
    /\ \A k \in 1..Len(speaker) : speaker[k] # ":"

(* C17: every caption the line classifier produces has a trimmed speaker that
   is non-empty and holds no colon, and no segment is ever open with the
   empty string as its speaker. *)
C17_SpeakerNonEmptyNoColon ==
    /\ \A k \in 1..(i - 1) :
           IsCaption(lines[k]) => ProperSpeaker(CapSpeaker(lines[k]))
    /\ SegmentOpen => ProperSpeaker(Val(current_speaker))

---------------------------------------------------------------------------
\* a non-blank line the caption pattern matches
Matches(raw) == ~IsBlankLine(raw) /\ ~IsNone(line_regex(Strip(raw)))

(* C18: for every line the caption pattern matches, timestamp_to_seconds
   gives a non-null, non-negative integer, so the iteration never takes the
   skip branch: it opens a segment for the line (the line's speaker, seconds
   and text become the open segment's) or extends the open segment of the
   same speaker (nothing changes but, for a non-empty text, the text parts). *)
C18_SkipBranchUnreachable ==
    [][(AtLine /\ Matches(lines[i])) =>
          LET groups == Val(line_regex(Strip(lines[i])))
              speaker == Strip(groups.speaker)
              text == Strip(groups.text)
              current_seconds == timestamp_to_seconds(groups.ts_str)
          IN  /\ ~IsNone(current_seconds)
              /\ Val(current_seconds) \in Nat
              /\ \/ /\ current_speaker' = Some(speaker)
                    /\ current_segment_start_seconds' = current_seconds
                    /\ current_segment_start_ts_str'
                           = Some(seconds_to_timestamp(current_seconds))
                    /\ current_text_parts' = <<text>>
                 \/ /\ current_speaker = Some(speaker)
                    /\ current_text_parts'
                           = IF text = <<>> THEN current_text_parts
                             ELSE Append(current_text_parts, text)
                    /\ UNCHANGED <<output_lines, current_speaker,
                                   current_segment_start_seconds,
                                   current_segment_start_ts_str>>]_vars

\* a caption with a fractional timestamp has been merged into the segment
\* opened at 00:00
C18_Witness ==
    /\ i = 3
    /\ Matches(lines[1])
    /\ Matches(lines[2])
    /\ CapTs(lines[2]) = Ts0020
    /\ current_segment_start_seconds = Some(0)
    /\ Len(current_text_parts) = 2
    /\ output_lines = <<>>

---------------------------------------------------------------------------
\* the returned text run through process_transcript again
SecondPass == Join(<<"\n">>, process_transcript(SplitLines(StripText(Val(result)))))

(* C19: process_transcript is idempotent: running it on its own result gives
   that result again, so a second pass merges, splits or re-timestamps no
   line of an output. *)
C19_Idempotent == pc = "done" => SecondPass = Val(result)

====
